---- MODULE Spec2Model ----
(***************************************************************************)
(* Query orchestration core of coin-news: the Executor (do_plan), the      *)
(* rule based Planner (make_plan), the Entry router (process) and the      *)
(* chat handler that stores the session context.                           *)
(*                                                                         *)
(* Three specifications share the variables below:                         *)
(*   SpecExecutor  one run of ExecutorAgent.do_plan on a bounded QueryPlan *)
(*   SpecPlanner   make_plan applied to a bounded NormalizedQuery          *)
(*   SpecEntry     a sequence of chat turns on one session                 *)
(* Scores and thresholds are kept in hundredths (0.65 is 65).              *)
(***************************************************************************)
EXTENDS Integers, Sequences, FiniteSets, TLC

VARIABLES
    \* ---- ExecutorAgent.do_plan locals -------------------------------
    plan,                         \* the QueryPlan being executed
    pc,                           \* position inside do_plan
    idx,                          \* 1-based position of the for loop
    collected_coin_prices,        \* defaultdict(list): coin -> daily rows
    collected_coin_hourly_prices, \* defaultdict(list): coin -> hourly rows
    collected_news_chunks,        \* list of passages
    chunk_perspective,            \* for each passage, the plan index it came from
    executed_queries,
    generated_queries,
    coin_names_set,
    errors,
    total_actions,
    successful_actions,
    failed_actions,
    price_summary,
    news_summary,
    combined_summary,
    dispatch_log,                 \* every tool dispatch made by _execute_tool
    first_coin,                   \* list(coin_names_set)[0] once this run has listed the set
    plan_result,                  \* the returned PlanResult
    run_no,                       \* which execution of the plan this is: 1 or 2
    first_run,                    \* what the first execution returned and dispatched
    \* ---- Planner ----------------------------------------------------
    normalized_query,             \* input of make_plan
    planner_out,                  \* outcome of QueryPlanningAgent.make_plan
    task_planner_out,             \* outcome of TaskPlanningAgent.make_plan
    \* ---- Entry router and session -----------------------------------
    session_context,              \* SessionContext stored for the session
    turn,                         \* number of turns taken
    turn_result,                  \* what the last turn returned
    turn_stages,                  \* stages invoked by the last turn, in order
    turn_failed,                  \* stage that failed in the last turn, or "none"
    turn_before,                  \* session context when the last turn started
    turn_script_input,            \* PlanResult handed to the Scripter in the last turn
    turn_planner_input,           \* NormalizedQuery handed to the Planner in the last turn
    turn_handler,                 \* handler of the last turn: "process" or "on_message"
    turn_message,                 \* utterance of the last turn
    turn_decision,                \* router LLM output of the last turn
    turn_branch,                  \* branch of process the last turn executed
    turn_applied,                 \* the last turn's context_update was stored
    \* ---- SessionManager over Redis -----------------------------------
    redis_session,                \* value at chat:session:<id>, None when the key is absent
    redis_session_ttl,            \* time the session key still has to live
    redis_messages,               \* list at chat:messages:<id>
    redis_messages_ttl,           \* time the messages key still has to live
    caller_pc,                    \* position of each caller inside update_context
    caller_session,               \* the session each caller of update_context has read
    caller_patch,                 \* the context each caller of update_context was given
    store_last,                   \* the last operation and what it returned
    store_created,                \* create_session has been called
    store_appended,               \* number of messages appended so far
    store_since_op,               \* time since the last operation on the session
    store_window_kept,            \* no TTL window without an operation since creation
    store_applied,                \* patches whose update_context returned True
    \* ---- Batch lock ---------------------------------------------------
    lock_file,                    \* os.path.exists(LOCK_FILE)
    request_pc,                   \* where each POST /batch request stands
    request_outcome               \* how the run of each request ended

execVars == <<plan, pc, idx, collected_coin_prices, collected_coin_hourly_prices,
              collected_news_chunks, chunk_perspective, executed_queries,
              generated_queries, coin_names_set, errors, total_actions,
              successful_actions, failed_actions, price_summary, news_summary,
              combined_summary, dispatch_log, first_coin, plan_result,
              run_no, first_run>>
planVars == <<normalized_query, planner_out, task_planner_out>>
entryVars == <<session_context, turn, turn_result, turn_stages, turn_failed,
               turn_before, turn_script_input, turn_planner_input, turn_handler,
               turn_message,
               turn_decision, turn_branch, turn_applied>>
storeVars == <<redis_session, redis_session_ttl, redis_messages, redis_messages_ttl,
               caller_pc, caller_session, caller_patch, store_last, store_created,
               store_appended, store_since_op, store_window_kept, store_applied>>
batchVars == <<lock_file, request_pc, request_outcome>>
vars == <<execVars, planVars, entryVars, storeVars, batchVars>>

\* Python None
None == [kind |-> "None"]

(***************************************************************************)
(* Bounds of the model                                                     *)
(***************************************************************************)
MaxPlan == 2
NumDocs == 4
MaxTurns == 2

Min(a, b) == IF a < b THEN a ELSE b

(***************************************************************************)
(* Small helpers for Python dicts and lists                                *)
(***************************************************************************)
EmptyDict == << >>

\* d.get(k, default)
DictGet(d, k, default) == IF k \in DOMAIN d THEN d[k] ELSE default

\* defaultdict(list)[k]: reading a missing key creates it with []
DefaultDictTouch(d, k) ==
    [x \in DOMAIN d \cup {k} |-> IF x \in DOMAIN d THEN d[x] ELSE << >>]

\* defaultdict(list)[k].extend(rows)
DefaultDictExtend(d, k, rows) ==
    [x \in DOMAIN d \cup {k} |->
        IF x = k THEN DictGet(d, k, << >>) \o rows ELSE d[x]]

\* dict.update: shallow merge, keys of patch win
DictUpdate(d, patch) ==
    [x \in DOMAIN d \cup DOMAIN patch |->
        IF x \in DOMAIN patch THEN patch[x] ELSE d[x]]

\* lst[:n]
Take(lst, n) == SubSeq(lst, 1, Min(n, Len(lst)))

Range(f) == {f[x] : x \in DOMAIN f}

\* all orders in which the elements of a set can be listed
Orderings(S) ==
    {f \in [1..Cardinality(S) -> S] : \A i, j \in 1..Cardinality(S) : i # j => f[i] # f[j]}

RECURSIVE SortedSeq(_)
\* sorted(list(S)) for a set of strings compared through StringRank
StringRank(s) ==
    CASE s = "ADA" -> 1 [] s = "BTC" -> 2 [] s = "ETH" -> 3 [] s = "UNKNOWN" -> 4 [] OTHER -> 5
SortedSeq(S) ==
    IF S = {} THEN << >>
    ELSE LET m == CHOOSE x \in S : \A y \in S : StringRank(x) <= StringRank(y)
         IN <<m>> \o SortedSeq(S \ {m})


(***************************************************************************)
(* Constants of the executor and of the tools it dispatches                *)
(***************************************************************************)
DefaultTopK == 15            \* search_params.get("top_k", 15)
DefaultThreshold == 65       \* search_params.get("similarity_threshold", 0.65)
ToolDefaultTopK == 10        \* semantic_search(top_k=10)
ToolDefaultThreshold == 70   \* semantic_search(similarity_threshold=0.7)
ExtractLimit == 3            \* collected_news_chunks[:3]
MaxGenerated == 10           \* list(set(generated_queries))[:10]

Coins == {"BTC", "ETH"}

\* the query strings make_semantic_query can come back with
Queries == {1, 2}

\* ExecutorAgent.__init__: self.all_tools
RegisteredTools ==
    {"get_coin_price", "make_semantic_query", "semantic_search",
     "extract_queries_from_news", "summarize_price_data",
     "summarize_news_chunks", "summarize_combined"}

\* k.startswith("_") over the argument keys that occur
StartsWithUnderscore(k) == k \in {"_search_params"}

\* a dispatch that forwards the arguments as they are
CleanArgs_Forwarding(arguments) == arguments

\* clean_args = {k: v for k, v in arguments.items() if not k.startswith("_")}
CleanArgs(arguments) ==
    [k \in {x \in DOMAIN arguments : ~StartsWithUnderscore(x)} |-> arguments[k]]

(***************************************************************************)
(* The vector store behind semantic_search.  Document d lies at distance   *)
(* Distance(q, d) of query q; the store answers nearest first.             *)
(***************************************************************************)
Distance(q, d) == 10 * (q + d - 1)

\* collection.query(query_embeddings, n_results=top_k): nearest first
ChromaQuery(query, n_results) ==
    [i \in 1..Min(n_results, NumDocs) |-> [doc |-> i, distance |-> Distance(query, i)]]

\* NewsRepository._format_results
FormatResults(results, similarity_threshold) ==
    LET passes(r) == 100 - r.distance >= similarity_threshold
        kept == SelectSeq(results, passes)
    IN [i \in 1..Len(kept) |->
           [doc |-> kept[i].doc,
            title |-> kept[i].doc,
            distance |-> kept[i].distance,
            similarity_score |-> 100 - kept[i].distance]]

\* NewsRepository.search: any failure inside is answered with []
RepoSearch(query, top_k, similarity_threshold, store_ok) ==
    IF store_ok THEN FormatResults(ChromaQuery(query, top_k), similarity_threshold)
    ELSE << >>

\* tools.vector_tools.semantic_search (the tool body, given its keyword arguments)
SemanticSearchTool(args, store_ok) ==
    RepoSearch(args.query,
               DictGet(args, "top_k", ToolDefaultTopK),
               DictGet(args, "similarity_threshold", ToolDefaultThreshold),
               store_ok)

\* an auto-chained semantic_search that ignores _search_params
ChainedSearchArgs_Defaults(query_string, arguments) ==
    [query |-> query_string, top_k |-> DefaultTopK,
     similarity_threshold |-> DefaultThreshold, pivot_date |-> None,
     date_range |-> "month"]

\* the arguments of the auto-chained semantic_search
ChainedSearchArgs(query_string, arguments) ==
    LET search_params == DictGet(arguments, "_search_params", EmptyDict)
    IN [query |-> query_string,
        top_k |-> DictGet(search_params, "top_k", DefaultTopK),
        similarity_threshold |-> DictGet(search_params, "similarity_threshold", DefaultThreshold),
        pivot_date |-> DictGet(search_params, "pivot_date", None),
        date_range |-> DictGet(search_params, "date_range", "month")]

\* rows the price store holds for a coin and a range
PriceRows(coin_name, range_type) ==
    << [coin |-> coin_name, range_type |-> range_type] >>

(***************************************************************************)
(* The QueryPlans the executor is run on                                   *)
(***************************************************************************)
GetCoinPriceCall(coin, range_type) ==
    [tool_name |-> "get_coin_price",
     arguments |-> [coin_name |-> coin, pivot_date |-> 1727740800,
                    range_type |-> range_type, direction |-> "before"]]

MakeSemanticQueryCall(search_params) ==
    [tool_name |-> "make_semantic_query",
     arguments |-> [coin_names |-> <<"BTC">>, intent_type |-> "price_reason",
                    custom_context |-> "direct",
                    _search_params |-> search_params]]

MakeSemanticQueryCallNoParams ==
    [tool_name |-> "make_semantic_query",
     arguments |-> [coin_names |-> <<"BTC">>, intent_type |-> "price_reason",
                    custom_context |-> "direct"]]

SemanticSearchCall ==
    [tool_name |-> "semantic_search",
     arguments |-> [query |-> 1, top_k |-> 10, similarity_threshold |-> 0]]

\* a tool name of the older planner that the executor does not register
UnregisteredCall ==
    [tool_name |-> "get_price_week_before", arguments |-> [coin_name |-> "BTC"]]

PlanCalls ==
    {GetCoinPriceCall("BTC", "week"), GetCoinPriceCall("ETH", "week"),
     GetCoinPriceCall("BTC", "hour"),
     MakeSemanticQueryCall([top_k |-> 10, similarity_threshold |-> 0,
                            pivot_date |-> 1727740800, date_range |-> "week"]),
     MakeSemanticQueryCallNoParams,
     SemanticSearchCall,
     UnregisteredCall}

QueryPlans ==
    UNION {[1..n -> PlanCalls] : n \in 0..MaxPlan}

(***************************************************************************)
(* What a dispatched tool can do                                           *)
(***************************************************************************)
Raise == [kind |-> "raise"]
Return(v) == [kind |-> "return", value |-> v]
\* a value the caller cannot iterate over
ReturnNone == [kind |-> "return_none"]

\* outcomes of self._execute_tool(tool_name, arguments) for a declared call
ToolOutcomes(tool_call) ==
    IF tool_call.tool_name \notin RegisteredTools THEN {[kind |-> "unregistered"]}
    ELSE IF tool_call.tool_name = "get_coin_price" THEN
        {Raise, ReturnNone, Return(<< >>),
         Return(PriceRows(tool_call.arguments.coin_name, tool_call.arguments.range_type))}
    ELSE IF tool_call.tool_name = "make_semantic_query" THEN
        {Raise} \cup {Return(q) : q \in Queries}
    ELSE \* semantic_search
        {Raise} \cup {Return(SemanticSearchTool(CleanArgs(tool_call.arguments), ok)) :
                         ok \in BOOLEAN}

\* outcomes of the auto-chained semantic_search
ChainOutcomes(query_string, arguments) ==
    {Raise} \cup {Return(SemanticSearchTool(ChainedSearchArgs(query_string, arguments), ok)) :
                     ok \in BOOLEAN}


(***************************************************************************)
(* ExecutorAgent.do_plan                                                   *)
(***************************************************************************)
\* the locals of do_plan that the for loop of Step 1 reads and writes
Locals ==
    [collected_coin_prices |-> collected_coin_prices,
     collected_coin_hourly_prices |-> collected_coin_hourly_prices,
     collected_news_chunks |-> collected_news_chunks,
     chunk_perspective |-> chunk_perspective,
     executed_queries |-> executed_queries,
     coin_names_set |-> coin_names_set,
     errors |-> errors,
     successful_actions |-> successful_actions,
     failed_actions |-> failed_actions,
     dispatch_log |-> dispatch_log]

\* one entry of the dispatch log
Dispatch(i, tool_name, clean_args, chained, outcome) ==
    [idx |-> i, tool_name |-> tool_name, arguments |-> clean_args,
     chained |-> chained, outcome |-> outcome]

ToolError(tool_name) == [step |-> "tool", tool_name |-> tool_name]

\* errors.append(error_msg) of the except branch of the loop
ErrorsAfterFailure_Dropped(es, tool_name) == es
ErrorsAfterFailure(es, tool_name) == Append(es, ToolError(tool_name))

\* except Exception as e: errors.append(error_msg); failed_actions += 1
OnException(st, tool_name) ==
    [st EXCEPT !.errors = ErrorsAfterFailure(st.errors, tool_name),
               !.failed_actions = @ + 1]

\* collected_news_chunks.extend(result)
ExtendNews(st, i, result) ==
    [st EXCEPT !.collected_news_chunks = @ \o result,
               !.chunk_perspective = @ \o [k \in 1..Len(result) |-> i]]

\* the branch for tool_name == "get_coin_price" (after successful_actions += 1)
StoreCoinPrice(st, arguments, out) ==
    LET coin_name == DictGet(arguments, "coin_name", "UNKNOWN")
        range_type == DictGet(arguments, "range_type", "week")
        named == [st EXCEPT !.coin_names_set = @ \cup {coin_name}]
    IN IF out.kind = "return_none"
       THEN \* the bucket is created by the defaultdict, then extend(None) raises
            OnException(
                IF range_type = "hour"
                THEN [named EXCEPT !.collected_coin_hourly_prices = DefaultDictTouch(@, coin_name)]
                ELSE [named EXCEPT !.collected_coin_prices = DefaultDictTouch(@, coin_name)],
                "get_coin_price")
       ELSE IF range_type = "hour"
            THEN [named EXCEPT !.collected_coin_hourly_prices = DefaultDictExtend(@, coin_name, out.value)]
            ELSE [named EXCEPT !.collected_coin_prices = DefaultDictExtend(@, coin_name, out.value)]

\* auto-chaining without the inner try: a failing search fails the ToolCall
ChainSearch_Counted(st, i, arguments, query_string, chain) ==
    LET queried == [st EXCEPT !.executed_queries = Append(@, query_string),
                              !.dispatch_log = Append(@,
                                  Dispatch(i, "semantic_search",
                                           CleanArgs(ChainedSearchArgs(query_string, arguments)),
                                           TRUE, chain.kind))]
    IN IF chain.kind = "raise" THEN OnException(queried, "make_semantic_query")
       ELSE IF chain.value # << >> THEN ExtendNews(queried, i, chain.value)
       ELSE queried

\* the branch for tool_name == "make_semantic_query": auto-chaining
ChainSearch(st, i, arguments, query_string, chain) ==
    LET queried == [st EXCEPT !.executed_queries = Append(@, query_string),
                              !.dispatch_log = Append(@,
                                  Dispatch(i, "semantic_search",
                                           CleanArgs(ChainedSearchArgs(query_string, arguments)),
                                           TRUE, chain.kind))]
    IN IF chain.kind = "raise" THEN queried
       ELSE IF chain.value # << >> THEN ExtendNews(queried, i, chain.value)
       ELSE queried

\* one iteration of "for idx, tool_call in enumerate(query_plan.query_plan)"
LoopBody(st, i, tool_call, out, chain) ==
    LET tool_name == tool_call.tool_name
        arguments == tool_call.arguments
        logged == [st EXCEPT !.dispatch_log = Append(@,
                      Dispatch(i, tool_name, CleanArgs(arguments), FALSE, out.kind))]
    IN IF out.kind \in {"raise", "unregistered"} THEN OnException(logged, tool_name)
       ELSE LET counted == [logged EXCEPT !.successful_actions = @ + 1]
            IN IF tool_name = "get_coin_price"
               THEN StoreCoinPrice(counted, arguments, out)
               ELSE IF tool_name = "make_semantic_query"
               THEN ChainSearch(counted, i, arguments, out.value, chain)
               ELSE IF tool_name = "semantic_search" /\ out.value # << >>
               THEN ExtendNews(counted, i, out.value)
               ELSE counted

\* Step 1: execute the next declared ToolCall
ExecuteToolCall ==
    /\ pc = "step1"
    /\ idx <= Len(plan.query_plan)
    /\ LET tool_call == plan.query_plan[idx] IN
       \E out \in ToolOutcomes(tool_call) :
       \E chain \in (IF tool_call.tool_name = "make_semantic_query" /\ out.kind = "return"
                     THEN ChainOutcomes(out.value, tool_call.arguments)
                     ELSE {Raise}) :
          LET n == LoopBody(Locals, idx, tool_call, out, chain) IN
          /\ collected_coin_prices' = n.collected_coin_prices
          /\ collected_coin_hourly_prices' = n.collected_coin_hourly_prices
          /\ collected_news_chunks' = n.collected_news_chunks
          /\ chunk_perspective' = n.chunk_perspective
          /\ executed_queries' = n.executed_queries
          /\ coin_names_set' = n.coin_names_set
          /\ errors' = n.errors
          /\ successful_actions' = n.successful_actions
          /\ failed_actions' = n.failed_actions
          /\ dispatch_log' = n.dispatch_log
    /\ idx' = idx + 1
    /\ pc' = IF idx = Len(plan.query_plan) THEN "step2" ELSE "step1"
    /\ UNCHANGED <<plan, generated_queries, total_actions, price_summary,
                   news_summary, combined_summary, first_coin, plan_result>>
    /\ UNCHANGED <<run_no, first_run>>
    /\ UNCHANGED <<planVars, entryVars, storeVars, batchVars>>

\* queries the extractor derives from one chunk: later documents share a query
ExtractedQueries(chunk) == << Min(chunk.title, 2) >>

RECURSIVE ExtractAll(_, _, _)
\* generated_queries after the chunks k.. of the first three, given which calls succeed
ExtractAll(chunks, k, succeed) ==
    IF k > Len(chunks) THEN << >>
    ELSE (IF k \in succeed THEN ExtractedQueries(chunks[k]) ELSE << >>)
         \o ExtractAll(chunks, k + 1, succeed)

\* which of the n extractor calls of a run succeed: at most one of them fails
ExtractionOutcomes(n) == {1..n} \cup {(1..n) \ {k} : k \in 1..n}

\* Step 2: extract additional queries from the first three chunks
ExtractQueries ==
    /\ pc = "step2"
    /\ LET first == Take(collected_news_chunks, ExtractLimit) IN
       \E succeed \in ExtractionOutcomes(Len(first)) :
          /\ generated_queries' = ExtractAll(first, 1, succeed)
          /\ dispatch_log' = dispatch_log \o
                [k \in 1..Len(first) |->
                    Dispatch(0, "extract_queries_from_news",
                             [title |-> first[k].title, document |-> first[k].doc],
                             FALSE, IF k \in succeed THEN "return" ELSE "raise")]
    /\ pc' = "step3"
    /\ UNCHANGED <<plan, idx, collected_coin_prices, collected_coin_hourly_prices,
                   collected_news_chunks, chunk_perspective, executed_queries,
                   coin_names_set, errors, total_actions, successful_actions,
                   failed_actions, price_summary, news_summary, combined_summary,
                   first_coin, plan_result>>
    /\ UNCHANGED <<run_no, first_run>>
    /\ UNCHANGED <<planVars, entryVars, storeVars, batchVars>>

\* list(coin_names_set)[0] if coin_names_set else "UNKNOWN": a set has no first element
FirstCoinChoices(names) == IF names = {} THEN {"UNKNOWN"} ELSE names

\* price_data handed to summarize_price_data for the chosen coin
PriceDataFor(coin_name, daily, hourly) ==
    IF coin_name \in DOMAIN daily THEN daily[coin_name]
    ELSE IF coin_name \in DOMAIN hourly THEN hourly[coin_name]
    ELSE << >>

\* what a summarizer tool hands back: its text, or the text of the error it caught
SummaryOutcomes == {"raise", "text", "error_text"}

\* Step 3: summarize price data
SummarizePrice ==
    /\ pc = "step3"
    /\ IF DOMAIN collected_coin_prices # {} \/ DOMAIN collected_coin_hourly_prices # {}
       THEN \E coin_name \in FirstCoinChoices(coin_names_set) :
            LET price_data == PriceDataFor(coin_name, collected_coin_prices,
                                           collected_coin_hourly_prices)
            IN
            /\ IF price_data # << >>
               THEN \E out \in SummaryOutcomes :
                    /\ dispatch_log' = Append(dispatch_log,
                          Dispatch(0, "summarize_price_data",
                                   [coin_name |-> coin_name, price_data |-> price_data,
                                    analysis_focus |-> plan.intent_type],
                                   FALSE, out))
                    /\ IF out = "raise"
                       THEN /\ price_summary' = None
                            /\ errors' = Append(errors, [step |-> "price_summary"])
                       ELSE /\ price_summary' = [kind |-> out, coin_name |-> coin_name,
                                                 price_data |-> price_data]
                            /\ errors' = errors
               ELSE UNCHANGED <<dispatch_log, price_summary, errors>>
            /\ first_coin' = coin_name
       ELSE UNCHANGED <<dispatch_log, price_summary, errors, first_coin>>
    /\ pc' = "step4"
    /\ UNCHANGED <<plan, idx, collected_coin_prices, collected_coin_hourly_prices,
                   collected_news_chunks, chunk_perspective, executed_queries,
                   generated_queries, coin_names_set, total_actions,
                   successful_actions, failed_actions, news_summary,
                   combined_summary, plan_result>>
    /\ UNCHANGED <<run_no, first_run>>
    /\ UNCHANGED <<planVars, entryVars, storeVars, batchVars>>

\* Step 4: summarize news data
SummarizeNews ==
    /\ pc = "step4"
    /\ IF collected_news_chunks # << >>
       THEN \E out \in SummaryOutcomes :
            /\ dispatch_log' = Append(dispatch_log,
                  Dispatch(0, "summarize_news_chunks",
                           [news_chunks |-> collected_news_chunks,
                            focus_topic |-> plan.intent_type],
                           FALSE, out))
            /\ IF out = "raise"
               THEN /\ news_summary' = None
                    /\ errors' = Append(errors, [step |-> "news_summary"])
               ELSE /\ news_summary' = [kind |-> out, news_chunks |-> collected_news_chunks]
                    /\ errors' = errors
       ELSE UNCHANGED <<dispatch_log, news_summary, errors>>
    /\ pc' = "step5"
    /\ UNCHANGED <<plan, idx, collected_coin_prices, collected_coin_hourly_prices,
                   collected_news_chunks, chunk_perspective, executed_queries,
                   generated_queries, coin_names_set, total_actions,
                   successful_actions, failed_actions, price_summary,
                   combined_summary, first_coin, plan_result>>
    /\ UNCHANGED <<run_no, first_run>>
    /\ UNCHANGED <<planVars, entryVars, storeVars, batchVars>>

\* Step 5: combined summary
SummarizeCombined ==
    /\ pc = "step5"
    /\ IF price_summary # None \/ news_summary # None
       THEN \E coin_name \in (IF first_coin # "" THEN {first_coin}
                                ELSE FirstCoinChoices(coin_names_set)),
               out \in SummaryOutcomes :
            /\ first_coin' = coin_name
            /\ dispatch_log' = Append(dispatch_log,
                  Dispatch(0, "summarize_combined",
                           [coin_name |-> coin_name, price_summary |-> price_summary,
                            news_summary |-> news_summary, user_query |-> plan.intent_type],
                           FALSE, out))
            /\ IF out = "raise"
               THEN /\ combined_summary' = None
                    /\ errors' = Append(errors, [step |-> "combined_summary"])
               ELSE /\ combined_summary' = [kind |-> out, coin_name |-> coin_name]
                    /\ errors' = errors
       ELSE UNCHANGED <<dispatch_log, combined_summary, errors, first_coin>>
    /\ pc' = "return"
    /\ UNCHANGED <<plan, idx, collected_coin_prices, collected_coin_hourly_prices,
                   collected_news_chunks, chunk_perspective, executed_queries,
                   generated_queries, coin_names_set, total_actions,
                   successful_actions, failed_actions, price_summary,
                   news_summary, plan_result>>
    /\ UNCHANGED <<run_no, first_run>>
    /\ UNCHANGED <<planVars, entryVars, storeVars, batchVars>>

\* coin_names=sorted(list(coin_names_set))
SortedCoinNames(names) == SortedSeq(names)

\* return PlanResult(...)
ReturnPlanResult ==
    /\ pc = "return"
    /\ \E order \in Orderings(Range(generated_queries)) :
          plan_result' =
             [intent_type |-> plan.intent_type,
              collected_coin_prices |-> collected_coin_prices,
              collected_coin_hourly_prices |-> collected_coin_hourly_prices,
              collected_news_chunks |-> collected_news_chunks,
              coin_names |-> SortedCoinNames(coin_names_set),
              price_summary |-> price_summary,
              news_summary |-> news_summary,
              combined_summary |-> combined_summary,
              generated_queries |-> Take(order, MaxGenerated),
              total_actions |-> total_actions,
              successful_actions |-> successful_actions,
              failed_actions |-> failed_actions,
              errors |-> errors]
    /\ pc' = "done"
    /\ UNCHANGED <<plan, idx, collected_coin_prices, collected_coin_hourly_prices,
                   collected_news_chunks, chunk_perspective, executed_queries,
                   generated_queries, coin_names_set, errors, total_actions,
                   successful_actions, failed_actions, price_summary, news_summary,
                   combined_summary, dispatch_log, first_coin>>
    /\ UNCHANGED <<run_no, first_run>>
    /\ UNCHANGED <<planVars, entryVars, storeVars, batchVars>>

\* values of the variables a specification does not use
PlannerIdle ==
    /\ normalized_query = EmptyDict
    /\ planner_out = None
    /\ task_planner_out = None

\* callers of SessionManager.update_context
Callers == {1, 2}

\* concurrent POST /batch requests
MaxRequests == 3
Requests == 1..MaxRequests

BatchIdle ==
    /\ lock_file = FALSE
    /\ request_pc = [r \in Requests |-> "idle"]
    /\ request_outcome = [r \in Requests |-> "none"]

StoreIdle ==
    /\ redis_session = None
    /\ redis_session_ttl = 0
    /\ redis_messages = << >>
    /\ redis_messages_ttl = 0
    /\ caller_pc = [c \in Callers |-> "idle"]
    /\ caller_session = [c \in Callers |-> None]
    /\ caller_patch = [c \in Callers |-> EmptyDict]
    /\ store_last = [op |-> "none"]
    /\ store_created = FALSE
    /\ store_appended = 0
    /\ store_since_op = 0
    /\ store_window_kept = TRUE
    /\ store_applied = {}

EntryIdle ==
    /\ session_context = EmptyDict
    /\ turn = 0
    /\ turn_result = None
    /\ turn_stages = << >>
    /\ turn_failed = "none"
    /\ turn_before = EmptyDict
    /\ turn_script_input = None
    /\ turn_planner_input = None
    /\ turn_handler = "none"
    /\ turn_message = ""
    /\ turn_decision = << >>
    /\ turn_branch = "none"
    /\ turn_applied = FALSE

ExecutorIdle ==
    /\ plan = None
    /\ pc = "idle"
    /\ idx = 0
    /\ collected_coin_prices = EmptyDict
    /\ collected_coin_hourly_prices = EmptyDict
    /\ collected_news_chunks = << >>
    /\ chunk_perspective = << >>
    /\ executed_queries = << >>
    /\ generated_queries = << >>
    /\ coin_names_set = {}
    /\ errors = << >>
    /\ total_actions = 0
    /\ successful_actions = 0
    /\ failed_actions = 0
    /\ price_summary = None
    /\ news_summary = None
    /\ combined_summary = None
    /\ dispatch_log = << >>
    /\ first_coin = ""
    /\ plan_result = None
    /\ run_no = 1
    /\ first_run = None

\* do_plan entered with a QueryPlan: the locals as lines 105-115 set them
InitExecutor ==
    /\ \E calls \in QueryPlans :
          /\ plan = [intent_type |-> "price_reason", query_plan |-> calls]
          /\ total_actions = Len(calls)
          /\ pc = IF Len(calls) = 0 THEN "step2" ELSE "step1"
    /\ idx = 1
    /\ collected_coin_prices = EmptyDict
    /\ collected_coin_hourly_prices = EmptyDict
    /\ collected_news_chunks = << >>
    /\ chunk_perspective = << >>
    /\ executed_queries = << >>
    /\ generated_queries = << >>
    /\ coin_names_set = {}
    /\ errors = << >>
    /\ successful_actions = 0
    /\ failed_actions = 0
    /\ price_summary = None
    /\ news_summary = None
    /\ combined_summary = None
    /\ dispatch_log = << >>
    /\ first_coin = ""
    /\ plan_result = None
    /\ run_no = 1
    /\ first_run = None
    /\ PlannerIdle
    /\ EntryIdle
    /\ StoreIdle
    /\ BatchIdle

NextExecutor ==
    \/ ExecuteToolCall
    \/ ExtractQueries
    \/ SummarizePrice
    \/ SummarizeNews
    \/ SummarizeCombined
    \/ ReturnPlanResult

SpecExecutor == InitExecutor /\ [][NextExecutor]_vars


(***************************************************************************)
(* Properties of the Executor                                              *)
(***************************************************************************)
\* the dispatches of the declared ToolCalls, in the order they were made
DeclaredDispatches ==
    LET declared(e) == e.idx > 0 /\ ~e.chained IN SelectSeq(dispatch_log, declared)

\* the coin_name arguments of the get_coin_price calls declared in a plan
DeclaredCoins(calls) ==
    {calls[i].arguments.coin_name :
        i \in {k \in DOMAIN calls : calls[k].tool_name = "get_coin_price"}}

\* number of passages of the news list that came from plan position i
PassagesFrom(i) ==
    Cardinality({k \in DOMAIN chunk_perspective : chunk_perspective[k] = i})

\* C1: the returned counters satisfy successful_actions + failed_actions =
\* total_actions = number of declared ToolCalls, whatever the tools do
\* (stated as claimed; the code counts a call twice when its result cannot be stored)
C1_CountersAddUp ==
    pc = "done" =>
        /\ plan_result.total_actions = Len(plan.query_plan)
        /\ plan_result.successful_actions + plan_result.failed_actions
              = plan_result.total_actions

\* C2: a declared ToolCall that raises, or whose tool is not registered, adds
\* exactly one entry to errors, increments failed_actions, and the loop goes
\* on with the next declared call; do_plan always returns a PlanResult after
\* every declared call was dispatched once, in declared order
C2_FailureIsolated ==
    /\ [][(pc = "step1" /\ idx' # idx) =>
            LET tool_name == plan.query_plan[idx].tool_name
                entry == dispatch_log'[Len(dispatch_log) + 1]
            IN /\ idx' = idx + 1
               /\ entry.idx = idx /\ entry.tool_name = tool_name /\ ~entry.chained
               /\ pc' = (IF idx < Len(plan.query_plan) THEN "step1" ELSE "step2")
               /\ entry.outcome \in {"raise", "unregistered"} =>
                    /\ errors' = Append(errors, ToolError(tool_name))
                    /\ failed_actions' = failed_actions + 1
                    /\ successful_actions' = successful_actions
          ]_vars
    /\ [](pc = "done" =>
            /\ plan_result # None
            /\ Len(DeclaredDispatches) = Len(plan.query_plan)
            /\ \A i \in DOMAIN DeclaredDispatches :
                  /\ DeclaredDispatches[i].idx = i
                  /\ DeclaredDispatches[i].tool_name = plan.query_plan[i].tool_name)

\* C2 witness: a run that returned although an earlier declared call failed and a
\* later one was executed with success
C2_Witness ==
    /\ pc = "done"
    /\ \E i, j \in DOMAIN DeclaredDispatches :
          /\ i < j
          /\ DeclaredDispatches[i].outcome \in {"raise", "unregistered"}
          /\ DeclaredDispatches[j].outcome = "return"
    /\ plan_result.failed_actions >= 1
    /\ Len(plan_result.errors) >= 1

\* C4: coin_names of the PlanResult is the sorted, de-duplicated union of the
\* coin_name arguments of every declared get_coin_price call, succeeded or not
\* (stated as claimed; the code adds a coin only after its call returned)
C4_CoinNamesOfEveryDeclaredCall ==
    pc = "done" => plan_result.coin_names = SortedSeq(DeclaredCoins(plan.query_plan))

\* C5: at most 3 passages of any one perspective are in the news list handed to
\* summarize_news_chunks (stated as claimed; the code appends every passage)
C5_AtMostThreePerPerspective ==
    \A k \in DOMAIN dispatch_log :
        dispatch_log[k].tool_name = "summarize_news_chunks" =>
            /\ dispatch_log[k].arguments.news_chunks = collected_news_chunks
            /\ \A i \in DOMAIN plan.query_plan : PassagesFrom(i) <= 3

\* C6: the news list is ordered by similarity, highest first, across the
\* perspectives of the plan (stated as claimed; the code concatenates)
C6_NewsSortedBySimilarity ==
    \A i, j \in DOMAIN collected_news_chunks :
        i < j => collected_news_chunks[i].similarity_score
                    >= collected_news_chunks[j].similarity_score


(***************************************************************************)
(* QueryPlanningAgent.make_plan and TaskPlanningAgent.make_plan            *)
(***************************************************************************)
\* Python None in a field that otherwise holds a string
NoneStr == "null"

\* QUERY_PERSPECTIVES (contexts and keywords named in English)
QUERY_PERSPECTIVES ==
    [price_reason |->
        << [custom_context |-> "direct price change causes",
            event_keywords |-> {"surge", "plunge", "rise", "fall"}],
           [custom_context |-> "market environment and macro economy",
            event_keywords |-> {"market", "rates", "dollar", "liquidity"}],
           [custom_context |-> "positive catalysts",
            event_keywords |-> {"ETF", "approval", "institutional", "adoption"}],
           [custom_context |-> "regulation and policy",
            event_keywords |-> {"regulation", "SEC", "policy", "bill"}],
           [custom_context |-> "technical factors",
            event_keywords |-> {"halving", "mining", "hashrate", "network"}] >>,
     market_trend |->
        << [custom_context |-> "overall market trend",
            event_keywords |-> {"market", "trend", "movement"}],
           [custom_context |-> "volume and investor activity",
            event_keywords |-> {"volume", "investor", "buy", "sell"}],
           [custom_context |-> "institutions and large holders",
            event_keywords |-> {"institutional", "whale", "bulk"}] >>,
     news_summary |->
        << [custom_context |-> "headline news",
            event_keywords |-> {"news", "report", "announcement"}],
           [custom_context |-> "project updates",
            event_keywords |-> {"update", "development", "roadmap"}],
           [custom_context |-> "partnerships",
            event_keywords |-> {"partnership", "cooperation", "alliance"}],
           [custom_context |-> "exchange news",
            event_keywords |-> {"exchange", "listing", "deposit"}] >>]

\* DEPTH_PARAMS with a deep threshold stricter than the medium one
DEPTH_PARAMS_Rising ==
    [short |-> [top_k |-> 10, similarity_threshold |-> 10],
     medium |-> [top_k |-> 15, similarity_threshold |-> 0],
     deep |-> [top_k |-> 25, similarity_threshold |-> 20]]

\* DEPTH_PARAMS (thresholds 0.1, 0.0, -0.2 in hundredths)
DEPTH_PARAMS ==
    [short |-> [top_k |-> 10, similarity_threshold |-> 10],
     medium |-> [top_k |-> 15, similarity_threshold |-> 0],
     deep |-> [top_k |-> 25, similarity_threshold |-> 0 - 20]]

\* RELATIVE_TO_RANGE, with 24h, 7d and 1m as keys
RELATIVE_TO_RANGE ==
    [x \in {"24h", "7d", "1m", "ytd", "all"} |->
        CASE x = "24h" -> "day" [] x = "7d" -> "week" [] x = "1m" -> "month"
          [] x = "ytd" -> "year" [] x = "all" -> "year"]

\* datetime.strptime(s, "%Y%m%d") as UTC midnight, for the date strings that occur
ParsesAsDate(s) == s \in {"20251015"}
EpochOfDate(s) == CASE s = "20251015" -> 1760486400 [] OTHER -> 0

\* QueryPlanningAgent._calculate_pivot_time, today_midnight being the wall clock day
CalculatePivotTime(nq, today_midnight) ==
    LET pivot_time_str == DictGet(DictGet(nq, "time_range", EmptyDict), "pivot_time", NoneStr)
    IN IF pivot_time_str = "today" \/ pivot_time_str = NoneStr THEN today_midnight
       ELSE IF ParsesAsDate(pivot_time_str) THEN EpochOfDate(pivot_time_str)
       ELSE today_midnight

UnknownIntent == [kind |-> "raised", error |-> "UNKNOWN_INTENT", status_code |-> 400]

\* intent_type = normalized_query.get("intent_type", "unknown")
QueryPlannerIntent(nq) == DictGet(nq, "intent_type", "unknown")

\* the get_coin_price calls of Step 1
PriceCalls(intent_type, coin_names, relative, pivot_time) ==
    IF intent_type \in {"price_reason", "market_trend"}
    THEN [i \in 1..Len(coin_names) |->
            [tool_name |-> "get_coin_price",
             arguments |->
                [coin_name |-> coin_names[i],
                 pivot_date |-> pivot_time,
                 range_type |-> DictGet(RELATIVE_TO_RANGE, relative, "month"),
                 direction |-> IF intent_type = "price_reason" THEN "both" ELSE "before"]]]
    ELSE << >>

\* the make_semantic_query calls of Step 2, one per perspective; the keyword list
\* list(set(base + perspective)) is kept as the set of its elements
PerspectiveCalls(intent_type, coin_names, base_keywords, event_magnitude, depth, relative, pivot_time) ==
    LET perspectives == DictGet(QUERY_PERSPECTIVES, intent_type, QUERY_PERSPECTIVES["news_summary"])
        depth_params == DictGet(DEPTH_PARAMS, depth, DEPTH_PARAMS["medium"])
        magnitude_map == [big |-> "surge", small |-> "plunge"]
        tool_magnitude == IF event_magnitude # NoneStr
                          THEN DictGet(magnitude_map, event_magnitude, "any")
                          ELSE NoneStr
    IN [i \in 1..Len(perspectives) |->
          [tool_name |-> "make_semantic_query",
           arguments |->
              [coin_names |-> coin_names,
               intent_type |-> intent_type,
               event_keywords |-> Range(base_keywords) \cup perspectives[i].event_keywords,
               event_magnitude |-> tool_magnitude,
               custom_context |-> perspectives[i].custom_context,
               _search_params |->
                  [top_k |-> depth_params.top_k,
                   similarity_threshold |-> depth_params.similarity_threshold,
                   pivot_date |-> pivot_time,
                   date_range |-> DictGet(RELATIVE_TO_RANGE, relative, "month")]]]]

\* QueryPlanningAgent.make_plan
MakePlan(nq, today_midnight) ==
    LET intent_type == QueryPlannerIntent(nq) IN
    IF intent_type = "unknown" THEN UnknownIntent
    ELSE
    LET target == DictGet(nq, "target", EmptyDict)
        coin_names == DictGet(target, "coin", <<"BTC">>)
        event == DictGet(nq, "event", EmptyDict)
        event_magnitude == DictGet(event, "magnitude", NoneStr)
        base_keywords == DictGet(event, "keywords", << >>)
        goal == DictGet(nq, "goal", EmptyDict)
        depth == DictGet(goal, "depth", "medium")
        time_range == DictGet(nq, "time_range", EmptyDict)
        relative == DictGet(time_range, "relative", "1m")
        pivot_time == CalculatePivotTime(nq, today_midnight)
    IN [kind |-> "plan",
        plan |-> [intent_type |-> intent_type,
                  pivot_time |-> pivot_time,
                  query_plan |->
                     PriceCalls(intent_type, coin_names, relative, pivot_time)
                     \o PerspectiveCalls(intent_type, coin_names, base_keywords,
                                         event_magnitude, depth, relative, pivot_time)]]

\* the tool calls the LLM of the task planner may answer with
TaskToolCalls ==
    {<< >>,
     << [tool_name |-> "get_price_week_before", arguments |-> [coin_name |-> "BTC"]] >>,
     << [tool_name |-> "generate_search_query_from_context", arguments |-> [coin_name |-> "BTC"]],
        [tool_name |-> "get_price_month_before", arguments |-> [coin_name |-> "BTC"]] >>}

\* TaskPlanningAgent.make_plan: the guard reads query_json.get("intent_type"),
\* the LLM is invoked, then TaskPlan(intent_type=query_json["intent_type"], ...)
TaskMakePlanOutcome(nq, llm_ok, tool_calls, today_midnight) ==
    IF "intent_type" \in DOMAIN nq /\ nq.intent_type = "unknown" THEN UnknownIntent
    ELSE IF ~llm_ok THEN [kind |-> "raised", error |-> "LLM_ERROR", llm_called |-> TRUE,
                          tool_calls |-> << >>]
    ELSE IF "intent_type" \notin DOMAIN nq
    THEN [kind |-> "raised", error |-> "KeyError", llm_called |-> TRUE,
          tool_calls |-> tool_calls]
    ELSE [kind |-> "plan",
          plan |-> [intent_type |-> nq.intent_type,
                    pivot_time |-> CalculatePivotTime(nq, today_midnight),
                    action_plan |-> tool_calls]]

\* NormalizedQuery as the Analyzer dumps it: every key present
FullQueries ==
    {[intent_type |-> it,
      target |-> [coin |-> c],
      event |-> [magnitude |-> m, keywords |-> kw],
      goal |-> [task |-> "analyze", depth |-> d],
      time_range |-> [pivot_time |-> pt, relative |-> r]] :
        it \in {"market_trend", "news_summary", "price_reason", "unknown"},
        c \in {<<"BTC">>, <<"ETH", "BTC">>},
        m \in {"big", "small", "any", NoneStr},
        kw \in {<< >>, <<"ETF">>},
        d \in {"short", "medium", "deep"},
        pt \in {"today", "20251015", "2025-10-15", NoneStr},
        r \in {"24h", "7d", "1m", "ytd", "all", NoneStr}}

\* d without key k
WithoutKey(d, k) == [x \in DOMAIN d \ {k} |-> d[x]]

\* the dicts make_plan is applied to: dumped queries, and the same without intent_type
NormalizedQueries ==
    FullQueries \cup {WithoutKey(q, "intent_type") : q \in FullQueries}

\* the wall clock day of the model: 2025-11-01 00:00:00 UTC
TodayMidnight == 1761955200

InitPlanner ==
    /\ normalized_query \in NormalizedQueries
    /\ planner_out = None
    /\ task_planner_out = None
    /\ ExecutorIdle
    /\ EntryIdle
    /\ StoreIdle
    /\ BatchIdle

\* planner.make_plan(normalized_query) of the rule based planner
QueryMakePlan ==
    /\ planner_out = None
    /\ planner_out' = MakePlan(normalized_query, TodayMidnight)
    /\ UNCHANGED <<normalized_query, task_planner_out>>
    /\ UNCHANGED <<execVars, entryVars, storeVars, batchVars>>

\* task_planning_agent.make_plan(normalized_query) of the LLM planner
TaskMakePlan ==
    /\ task_planner_out = None
    /\ \E llm_ok \in BOOLEAN, tool_calls \in TaskToolCalls :
          task_planner_out' =
             TaskMakePlanOutcome(normalized_query, llm_ok, tool_calls, TodayMidnight)
    /\ UNCHANGED <<normalized_query, planner_out>>
    /\ UNCHANGED <<execVars, entryVars, storeVars, batchVars>>

NextPlanner ==
    \/ QueryMakePlan
    \/ TaskMakePlan

SpecPlanner == InitPlanner /\ [][NextPlanner]_vars

\* a NormalizedQuery the planner has to refuse
MustRefuse(nq) == "intent_type" \notin DOMAIN nq \/ nq.intent_type = "unknown"

\* C3: for every NormalizedQuery with intent_type = unknown or with no
\* intent_type, make_plan raises UnknownIntent and yields no plan and no
\* ToolCall (stated as claimed, for both planners; TaskPlanningAgent does not
\* refuse a query that has no intent_type)
C3_UnknownIntentRefused ==
    MustRefuse(normalized_query) =>
        /\ planner_out # None => planner_out = UnknownIntent
        /\ task_planner_out # None => task_planner_out = UnknownIntent


(***************************************************************************)
(* Strings whose characters the code inspects, as sequences of characters  *)
(***************************************************************************)
Whitespace == {" ", "\t", "\n", "\r"}
LowerCase == <<"a", "b", "c", "d", "e", "f", "g", "h", "i", "j", "k", "l", "m", "n", "o", "p", "q", "r", "s", "t", "u", "v", "w", "x", "y", "z">>
UpperCase == <<"A", "B", "C", "D", "E", "F", "G", "H", "I", "J", "K", "L", "M", "N", "O", "P", "Q", "R", "S", "T", "U", "V", "W", "X", "Y", "Z">>

UpperChar(c) ==
    IF \E i \in DOMAIN LowerCase : LowerCase[i] = c
    THEN UpperCase[CHOOSE i \in DOMAIN LowerCase : LowerCase[i] = c]
    ELSE c

\* s.upper()
Upper(s) == [i \in 1..Len(s) |-> UpperChar(s[i])]

\* s.strip()
Strip(s) ==
    LET keep == {i \in 1..Len(s) : s[i] \notin Whitespace}
    IN IF keep = {} THEN << >>
       ELSE SubSeq(s, CHOOSE i \in keep : \A j \in keep : i <= j,
                      CHOOSE i \in keep : \A j \in keep : j <= i)

MatchesAt(s, sub, i) == SubSeq(s, i, i + Len(sub) - 1) = sub

\* sub in s
Contains(s, sub) == \E i \in 1..(Len(s) - Len(sub) + 1) : MatchesAt(s, sub, i)

\* s.find(sub) + 1 when sub in s
FirstIndex(s, sub) ==
    CHOOSE i \in 1..(Len(s) - Len(sub) + 1) :
        MatchesAt(s, sub, i) /\ \A j \in 1..(i - 1) : ~MatchesAt(s, sub, j)

\* s.split(sep)
RECURSIVE Split(_, _)
Split(s, sep) ==
    IF Contains(s, sep)
    THEN LET i == FirstIndex(s, sep)
         IN << SubSeq(s, 1, i - 1) >> \o Split(SubSeq(s, i + Len(sep), Len(s)), sep)
    ELSE << s >>

STR_PATH == <<"P", "A", "T", "H", ":">>
STR_NEWLINE == << "\n" >>
STR_DIRECT == <<"D", "I", "R", "E", "C", "T">>
STR_DIRECT_RESPONSE == <<"D", "I", "R", "E", "C", "T", "_", "R", "E", "S", "P", "O", "N", "S", "E">>
STR_REUSE_RESULT == <<"R", "E", "U", "S", "E", "_", "R", "E", "S", "U", "L", "T">>
STR_REUSE_ANALYSIS == <<"R", "E", "U", "S", "E", "_", "A", "N", "A", "L", "Y", "S", "I", "S">>
STR_FULL_PIPELINE == <<"F", "U", "L", "L", "_", "P", "I", "P", "E", "L", "I", "N", "E">>
STR_ERROR == <<"E", "R", "R", "O", "R", "_">>

(***************************************************************************)
(* EntryAgent.process, cl_app.on_message and SessionManager.update_context *)
(***************************************************************************)
\* the path parsing of process: default FULL_PIPELINE, else the text after
\* "PATH:" on the first line that has it, stripped and upper-cased
ParsePath(decision_text) ==
    IF Contains(decision_text, STR_PATH)
    THEN LET lines == Split(decision_text, STR_NEWLINE)
             first == CHOOSE i \in DOMAIN lines :
                         /\ Contains(lines[i], STR_PATH)
                         /\ \A j \in 1..(i - 1) : ~Contains(lines[j], STR_PATH)
         IN Upper(Strip(Split(lines[first], STR_PATH)[2]))
    ELSE STR_FULL_PIPELINE

\* outputs of the router LLM
DecisionTexts ==
    {<<"R", "E", "A", "S", "O", "N", ":", " ", "g", "r", "e", "e", "t", "i", "n", "g", "\n", "P", "A", "T", "H", ":", " ", "D", "I", "R", "E", "C", "T", "_", "R", "E", "S", "P", "O", "N", "S", "E">>,
     <<"P", "A", "T", "H", ":", " ", "D", "I", "R", "E", "C", "T">>,
     <<"P", "A", "T", "H", ":", " ", "R", "E", "U", "S", "E", "_", "R", "E", "S", "U", "L", "T">>,
     <<"P", "A", "T", "H", ":", "R", "E", "U", "S", "E", "_", "A", "N", "A", "L", "Y", "S", "I", "S", " ", " ">>,
     <<"P", "A", "T", "H", ":", " ", "f", "u", "l", "l", "_", "p", "i", "p", "e", "l", "i", "n", "e">>,
     <<"n", "o", " ", "d", "e", "c", "i", "s", "i", "o", "n">>,
     <<"P", "A", "T", "H", ":", " ", "I", "N", "D", "I", "R", "E", "C", "T">>,
     <<"P", "A", "T", "H", ":", " ", "S", "E", "A", "R", "C", "H">>}

\* path of process for each router output
RouterPath == [decision_text \in DecisionTexts |-> ParsePath(decision_text)]

\* the router outputs whose path satisfies: path == "DIRECT_RESPONSE" or "DIRECT" in path
DirectTexts ==
    {decision_text \in DecisionTexts :
        \/ RouterPath[decision_text] = STR_DIRECT_RESPONSE
        \/ Contains(RouterPath[decision_text], STR_DIRECT)}

Utterances == {"why did BTC rise", "follow-up of 200 characters",
               "question of 201 characters"}

\* len(query)
UtteranceLength ==
    [u \in Utterances |->
        CASE u = "why did BTC rise" -> 16
          [] u = "follow-up of 200 characters" -> 200
          [] u = "question of 201 characters" -> 201]

\* self.max_query_length
MaxQueryLength == 200

\* analyze_query raises before its LLM call: len(query) > self.max_query_length
QueryTooLong(query) == UtteranceLength[query] > MaxQueryLength

\* what the Analyzer returns for an utterance
AnalyzedQueries ==
    {[intent_type |-> it,
      target |-> [coin |-> <<"BTC">>],
      event |-> [magnitude |-> NoneStr, keywords |-> << >>],
      goal |-> [task |-> "analyze", depth |-> "medium"],
      time_range |-> [pivot_time |-> "today", relative |-> "7d"]] :
        it \in {"price_reason", "news_summary", "unknown"}}

\* what do_plan leaves in the summaries: texts, or None where a step was skipped
ResultShapes ==
    {[coin_names |-> <<"BTC">>, price_summary |-> "price summary",
      news_summary |-> "news summary"],
     [coin_names |-> << >>, price_summary |-> NoneStr,
      news_summary |-> "news summary"]}

\* result.model_dump() of call_execute_plan
ExecutePlanResult(query_plan, original_query, shape) ==
    [intent_type |-> query_plan.intent_type,
     original_query |-> original_query,
     coin_names |-> shape.coin_names,
     price_summary |-> shape.price_summary,
     news_summary |-> shape.news_summary]

PipelineStages == {"Analyzer", "Planner", "Executor", "Scripter"}
ScripterOutcomes == {"ok", "llm_failed", "raise"}

\* f"처리 중 오류가 발생했습니다: {str(e)}"
ErrorResponse(e) == [kind |-> "error_string", error |-> e]
\* response.content.strip() of the Scripter's LLM
ScriptText(plan_result_in) == [kind |-> "script", original_query |-> plan_result_in.original_query]
\* f"스크립트 생성 실패: {str(e)}"
ScriptFailureText == [kind |-> "script_failure_text", error |-> "LLMError"]

StageRun(stages, failed, raised, response, result_dict, script_input) ==
    [stages |-> stages, failed |-> failed, raised |-> raised, response |-> response,
     result_dict |-> result_dict, script_input |-> script_input,
     planner_input |-> None]

\* the run of a pipeline whose Planner was handed nq
WithPlannerInput(run, nq) == [run EXCEPT !.planner_input = nq]

\* ScriptAgent.generate behind call_generate_script: an LLM failure is caught
\* and its text returned; anything before the try raises
GenerateScript(stages, result_dict, so) ==
    CASE so = "raise" ->
            StageRun(stages \o <<"Scripter">>, "Scripter", TRUE,
                     ErrorResponse("ScripterError"), result_dict, None)
      [] so = "llm_failed" ->
            StageRun(stages \o <<"Scripter">>, "Scripter", FALSE,
                     ScriptFailureText, result_dict, result_dict)
      [] OTHER ->
            StageRun(stages \o <<"Scripter">>, "none", FALSE,
                     ScriptText(result_dict), result_dict, result_dict)

\* call_make_plan, call_execute_plan, call_generate_script in sequence
RunFromPlanner(stages, nq, user_message, exec_ok, shape, so) ==
    LET p == MakePlan(nq, TodayMidnight) IN
    WithPlannerInput(
        IF p.kind = "raised"
        THEN StageRun(stages \o <<"Planner">>, "Planner", TRUE,
                      ErrorResponse(p.error), None, None)
        ELSE IF ~exec_ok
        THEN StageRun(stages \o <<"Planner", "Executor">>, "Executor", TRUE,
                      ErrorResponse("ExecutorError"), None, None)
        ELSE GenerateScript(stages \o <<"Planner", "Executor">>,
                            ExecutePlanResult(p.plan, user_message, shape), so),
        nq)

\* the runs of Planner, Executor and Scripter that the stages' outcomes allow
PipelineRuns(stages, nq, user_message) ==
    {RunFromPlanner(stages, nq, user_message, exec_ok, shape, so) :
        exec_ok \in BOOLEAN, shape \in ResultShapes, so \in ScripterOutcomes}

\* analyze_query raising: the length check, or else its LLM call or validation
AnalyzerFailure(query) ==
    StageRun(<<"Analyzer">>, "Analyzer", TRUE,
             ErrorResponse(IF QueryTooLong(query) THEN "QueryTooLong" ELSE "AnalyzerError"),
             None, None)

\* bool(d) of a dict or None
Truthy(d) == d # None /\ DOMAIN d # {}

\* previous_result.get("price_summary", "")[:200] and the same for news_summary
\* raise TypeError when the stored summary is None
SummaryRaises(previous_result) ==
    /\ Truthy(previous_result)
    /\ \/ DictGet(previous_result, "price_summary", "") = NoneStr
       \/ DictGet(previous_result, "news_summary", "") = NoneStr

\* result_dict = previous_result.copy(); result_dict["original_query"] = user_message
\* with the session context as it is afterwards
CopyThenStamp_Aliased(ctx, user_message) ==
    LET stamped == [x \in DOMAIN ctx.last_plan_result \cup {"original_query"} |->
                       IF x = "original_query" THEN user_message
                       ELSE ctx.last_plan_result[x]]
    IN [result_dict |-> stamped,
        context |-> [ctx EXCEPT !.last_plan_result = stamped]]

CopyThenStamp(ctx, user_message) ==
    LET previous_result == ctx.last_plan_result
        result_dict == [x \in DOMAIN previous_result \cup {"original_query"} |->
                           IF x = "original_query" THEN user_message
                           ELSE previous_result[x]]
    IN [result_dict |-> result_dict, context |-> ctx]

\* context_update of the REUSE_ANALYSIS branch
ReuseAnalysisUpdate_WithCoins(result_dict) ==
    [last_plan_result |-> result_dict, coins |-> result_dict.coin_names]

ReuseAnalysisUpdate(result_dict) == [last_plan_result |-> result_dict]

\* the variables a turn of either handler sets
FinishTurn(handler, user_message, decision_text, branch, result, run, context) ==
    /\ turn' = turn + 1
    /\ turn_handler' = handler
    /\ turn_message' = user_message
    /\ turn_decision' = decision_text
    /\ turn_branch' = branch
    /\ turn_result' = result
    /\ turn_stages' = run.stages
    /\ turn_failed' = run.failed
    /\ turn_script_input' = run.script_input
    /\ turn_planner_input' = run.planner_input
    /\ turn_before' = session_context
    /\ turn_applied' = FALSE
    /\ session_context' = context

NoStage == StageRun(<< >>, "none", FALSE, None, None, None)

\* the dict process returns
ProcessResult(response, context_update, path) ==
    [kind |-> "result", response |-> response, context_update |-> context_update,
     path |-> path]

\* the except branch of process
ProcessError(run, path) == ProcessResult(run.response, EmptyDict, STR_ERROR \o path)

\* result of the direct branch: the answer of the short LLM prompt, or the
\* except branch when that call raises
DirectResult_Stored(direct_ok, path) ==
    IF direct_ok
    THEN ProcessResult([kind |-> "direct"], [coins |-> << >>], STR_DIRECT_RESPONSE)
    ELSE ProcessResult(ErrorResponse("LLMError"), EmptyDict, STR_ERROR \o path)

DirectResult(direct_ok, path) ==
    IF direct_ok
    THEN ProcessResult([kind |-> "direct"], EmptyDict, STR_DIRECT_RESPONSE)
    ELSE ProcessResult(ErrorResponse("LLMError"), EmptyDict, STR_ERROR \o path)

\* a router that answers a reuse path without its artefact with a direct answer
ChosenBranch_NoFallback(decision_text, previous_analysis, previous_result) ==
    LET path == RouterPath[decision_text] IN
    IF decision_text \in DirectTexts THEN "DIRECT_RESPONSE"
    ELSE IF path = STR_REUSE_RESULT /\ Truthy(previous_result) THEN "REUSE_RESULT"
    ELSE IF path = STR_REUSE_ANALYSIS /\ Truthy(previous_analysis) THEN "REUSE_ANALYSIS"
    ELSE IF path \in {STR_REUSE_RESULT, STR_REUSE_ANALYSIS} THEN "DIRECT_RESPONSE"
    ELSE "FULL_PIPELINE"

\* the if / elif / else chain of process over the parsed path
ChosenBranch(decision_text, previous_analysis, previous_result) ==
    LET path == RouterPath[decision_text] IN
    IF decision_text \in DirectTexts THEN "DIRECT_RESPONSE"
    ELSE IF path = STR_REUSE_RESULT /\ Truthy(previous_result) THEN "REUSE_RESULT"
    ELSE IF path = STR_REUSE_ANALYSIS /\ Truthy(previous_analysis) THEN "REUSE_ANALYSIS"
    ELSE "FULL_PIPELINE"

\* EntryAgent.process(user_message, session_context)
Process ==
    /\ turn < MaxTurns
    /\ UNCHANGED <<execVars, planVars, storeVars, batchVars>>
    /\ \E user_message \in Utterances :
       LET previous_analysis == DictGet(session_context, "last_normalized_query", None)
           previous_result == DictGet(session_context, "last_plan_result", None)
       IN
       \/ \* the summary slice or the router LLM raises: process raises
          /\ \E e \in (IF SummaryRaises(previous_result) THEN {"TypeError"} ELSE {"LLMError"}) :
                FinishTurn("process", user_message, << >>, "none",
                           [kind |-> "raised", error |-> e], NoStage, session_context)
       \/ /\ ~SummaryRaises(previous_result)
          /\ \E decision_text \in DecisionTexts :
             LET path == RouterPath[decision_text]
                 branch == ChosenBranch(decision_text, previous_analysis, previous_result)
             IN
             IF branch = "DIRECT_RESPONSE"
             THEN \E direct_ok \in BOOLEAN :
                    FinishTurn("process", user_message, decision_text, "DIRECT_RESPONSE",
                       DirectResult(direct_ok, path),
                       NoStage, session_context)
             ELSE IF branch = "REUSE_RESULT"
             THEN \E so \in ScripterOutcomes :
                    LET c == CopyThenStamp(session_context, user_message)
                        run == GenerateScript(<< >>, c.result_dict, so)
                    IN FinishTurn("process", user_message, decision_text, "REUSE_RESULT",
                          IF run.raised THEN ProcessError(run, path)
                          ELSE ProcessResult(run.response, EmptyDict, STR_REUSE_RESULT),
                          run, c.context)
             ELSE IF branch = "REUSE_ANALYSIS"
             THEN \E run \in PipelineRuns(<< >>, previous_analysis, user_message) :
                       FinishTurn("process", user_message, decision_text, "REUSE_ANALYSIS",
                          IF run.raised THEN ProcessError(run, path)
                          ELSE ProcessResult(run.response,
                                             ReuseAnalysisUpdate(run.result_dict),
                                             STR_REUSE_ANALYSIS),
                          run, session_context)
             ELSE \/ \* call_analyze_query raises
                     FinishTurn("process", user_message, decision_text, "FULL_PIPELINE",
                        ProcessError(AnalyzerFailure(user_message), path),
                        AnalyzerFailure(user_message), session_context)
                  \/ /\ ~QueryTooLong(user_message)
                     /\ \E nq \in AnalyzedQueries :
                        \E run \in PipelineRuns(<<"Analyzer">>, nq, user_message) :
                          FinishTurn("process", user_message, decision_text, "FULL_PIPELINE",
                             IF run.raised THEN ProcessError(run, path)
                             ELSE ProcessResult(run.response,
                                     [last_normalized_query |-> nq,
                                      last_plan_result |-> run.result_dict,
                                      coins |-> DictGet(DictGet(nq, "target", EmptyDict),
                                                        "coin", << >>)],
                                     STR_FULL_PIPELINE),
                             run, session_context)

\* SessionManager.update_context(session_id, context) with the context_update
\* the last turn of process returned
UpdateContext ==
    /\ turn_handler = "process"
    /\ turn_result.kind = "result"
    /\ ~turn_applied
    /\ session_context' = DictUpdate(session_context, turn_result.context_update)
    /\ turn_applied' = TRUE
    /\ UNCHANGED <<turn, turn_result, turn_stages, turn_failed, turn_before,
                   turn_script_input, turn_planner_input, turn_handler, turn_message,
                   turn_decision,
                   turn_branch>>
    /\ UNCHANGED <<execVars, planVars, storeVars, batchVars>>

\* cl_app.on_message: the analysis is stored as soon as the Analyzer returns
OnMessage ==
    /\ turn < MaxTurns
    /\ UNCHANGED <<execVars, planVars, storeVars, batchVars>>
    /\ \E user_message \in Utterances :
       \/ LET run == AnalyzerFailure(user_message)
          IN FinishTurn("on_message", user_message, << >>, "none",
                        [kind |-> "message", content |-> run.response], run,
                        session_context)
       \/ /\ ~QueryTooLong(user_message)
          /\ \E nq \in AnalyzedQueries :
             \E run \in PipelineRuns(<<"Analyzer">>, nq, user_message) :
            LET stored == DictUpdate(session_context,
                             [last_normalized_query |-> nq,
                              coins |-> DictGet(DictGet(nq, "target", EmptyDict),
                                                "coin", << >>)])
            IN FinishTurn("on_message", user_message, << >>, "none",
                          [kind |-> "message", content |-> run.response], run, stored)

InitEntry ==
    /\ EntryIdle
    /\ ExecutorIdle
    /\ PlannerIdle
    /\ StoreIdle
    /\ BatchIdle

NextEntry ==
    \/ Process
    \/ UpdateContext
    \/ OnMessage

SpecEntry == InitEntry /\ [][NextEntry]_vars

(***************************************************************************)
(* Properties of a turn                                                    *)
(***************************************************************************)
SuccessPaths == {STR_DIRECT_RESPONSE, STR_REUSE_RESULT, STR_REUSE_ANALYSIS,
                 STR_FULL_PIPELINE}

\* the names a PATH: line may carry
ValidPathNames == SuccessPaths \cup {STR_DIRECT}

ValidPathParsed(decision_text) ==
    /\ Contains(decision_text, STR_PATH)
    /\ ParsePath(decision_text) \in ValidPathNames

\* the three fields of a SessionContext, where present
ContextView(ctx) ==
    [k \in {"last_normalized_query", "last_plan_result", "coins"} \cap DOMAIN ctx |-> ctx[k]]

C8_ContextKeptWhenStageFails ==
    turn_failed \in PipelineStages =>
        ContextView(session_context) = ContextView(turn_before)

\* C9: a router output from which no valid path can be parsed (no PATH: line,
\* or a name that is not DIRECT, REUSE_RESULT, REUSE_ANALYSIS or
\* FULL_PIPELINE) makes the turn run the FULL_PIPELINE branch (stated as
\* claimed; a name that merely contains DIRECT takes the direct branch)
C9_UnparsedPathRunsFullPipeline ==
    (turn_handler = "process" /\ turn_result.kind = "result"
        /\ ~ValidPathParsed(turn_decision)) =>
        turn_branch = "FULL_PIPELINE"

C12_DirectRunsNoStage ==
    (turn_handler = "process" /\ turn_branch = "DIRECT_RESPONSE") =>
        /\ turn_stages = << >>
        /\ turn_planner_input = None /\ turn_script_input = None
        /\ dispatch_log = << >>
        /\ turn_result.kind = "result"
        /\ turn_result.response.kind \in {"direct", "error_string"}
        /\ turn_result.path = STR_DIRECT_RESPONSE <=> turn_result.response.kind = "direct"
        /\ turn_result.context_update = EmptyDict
        /\ session_context = turn_before

\* a DIRECT turn on a populated session that returned its answer, with the
\* (empty) context update stored
C12_Witness ==
    /\ turn_handler = "process"
    /\ turn_branch = "DIRECT_RESPONSE"
    /\ turn_result.kind = "result"
    /\ turn_result.response.kind = "direct"
    /\ "last_plan_result" \in DOMAIN turn_before
    /\ turn_applied

\* C13: when the Analyzer yields intent_type = unknown and the Planner refuses
\* with UnknownIntent, the turn ends with a DIRECT answer and not with an
\* error result (stated as claimed; process has no fallback, the refusal is
\* caught by the except branch)
C13_UnknownIntentFallsBackToDirect ==
    (/\ turn_handler = "process"
     /\ turn_stages = <<"Analyzer", "Planner">>
     /\ turn_failed = "Planner"
     /\ turn_planner_input.intent_type = "unknown") =>
        /\ turn_result.kind = "result"
        /\ turn_result.path = STR_DIRECT_RESPONSE
        /\ turn_result.response.kind = "direct"

\* C14: an utterance of more than 200 characters is rejected with
\* QueryTooLong without any stage being invoked, whatever the session and
\* whatever path the router chooses, and one of at most 200 characters is not
\* rejected for its length (stated as claimed; only the Analyzer checks the
\* length, after the router has chosen a path that reaches it)
C14_LongUtteranceRejected ==
    (turn_handler = "process" /\ turn_message \in Utterances) =>
        IF QueryTooLong(turn_message)
        THEN /\ turn_result.kind = "result"
             /\ turn_result.response = ErrorResponse("QueryTooLong")
             /\ turn_stages \in {<< >>, <<"Analyzer">>}
        ELSE turn_result.kind = "result" =>
                turn_result.response # ErrorResponse("QueryTooLong")


(***************************************************************************)
(* SessionManager: one session kept in Redis under a session key and a     *)
(* messages key, each with its own expiry                                  *)
(***************************************************************************)
\* SESSION_TTL, in units of the model's clock
SessionTTL == 2
\* messages appended at most
MaxMessages == 2
\* get_messages(limit=20)
MessageLimit == 20

\* contexts given to update_context, on different keys
Patches == {[coins |-> <<"BTC">>], [last_normalized_query |-> "price_reason BTC"]}

\* lst[-n:]
LastN(lst, n) == SubSeq(lst, Len(lst) - Min(n, Len(lst)) + 1, Len(lst))

\* an operation on the session has just happened
Touched ==
    /\ store_since_op' = 0
    /\ UNCHANGED store_window_kept

\* redis.get(key) then, if data, redis.expire(key, ttl): the expiry after get_session
TTLAfterGet == IF redis_session # None THEN SessionTTL ELSE redis_session_ttl

\* SessionManager.create_session, called once when the chat starts
CreateSession ==
    /\ ~store_created
    /\ redis_session' = [context |-> EmptyDict]
    /\ redis_session_ttl' = SessionTTL
    /\ store_created' = TRUE
    /\ store_last' = [op |-> "create_session"]
    /\ store_applied' = {}
    /\ Touched
    /\ UNCHANGED <<redis_messages, redis_messages_ttl, caller_pc, caller_session,
                   caller_patch, store_appended>>
    /\ UNCHANGED <<execVars, planVars, entryVars, batchVars>>

\* SessionManager.get_session: the stored session, or None when the key is absent
GetSession ==
    /\ store_created
    /\ redis_session_ttl' = TTLAfterGet
    /\ store_last' = [op |-> "get_session", found |-> redis_session # None,
                      result |-> redis_session]
    /\ Touched
    /\ UNCHANGED <<redis_session, redis_messages, redis_messages_ttl, caller_pc,
                   caller_session, caller_patch, store_created, store_appended,
                   store_applied>>
    /\ UNCHANGED <<execVars, planVars, entryVars, batchVars>>

\* SessionManager.update_context up to the return of its get_session:
\* returns False when there is no session
UpdateContextRead(c) ==
    /\ store_created
    /\ caller_pc[c] = "idle"
    /\ \E context \in Patches :
          IF redis_session = None
          THEN /\ store_last' = [op |-> "update_context", found |-> FALSE,
                                 result |-> FALSE]
               /\ UNCHANGED <<caller_pc, caller_session, caller_patch>>
          ELSE /\ caller_pc' = [caller_pc EXCEPT ![c] = "write"]
               /\ caller_session' = [caller_session EXCEPT ![c] = redis_session]
               /\ caller_patch' = [caller_patch EXCEPT ![c] = context]
               /\ store_last' = [op |-> "get_session", found |-> TRUE,
                                 result |-> redis_session]
    /\ redis_session_ttl' = TTLAfterGet
    /\ Touched
    /\ UNCHANGED <<redis_session, redis_messages, redis_messages_ttl, store_created,
                   store_appended, store_applied>>
    /\ UNCHANGED <<execVars, planVars, entryVars, batchVars>>

\* SessionManager.update_context from session["context"].update(context) to
\* redis.set(key, ..., ex=ttl) and return True
UpdateContextWrite(c) ==
    /\ caller_pc[c] = "write"
    /\ redis_session' =
          [context |-> DictUpdate(caller_session[c].context, caller_patch[c])]
    /\ redis_session_ttl' = SessionTTL
    /\ caller_pc' = [caller_pc EXCEPT ![c] = "idle"]
    /\ caller_session' = [caller_session EXCEPT ![c] = None]
    /\ store_last' = [op |-> "update_context", found |-> TRUE, result |-> TRUE]
    /\ store_applied' = store_applied \cup {caller_patch[c]}
    /\ Touched
    /\ UNCHANGED <<redis_messages, redis_messages_ttl, caller_patch, store_created,
                   store_appended>>
    /\ UNCHANGED <<execVars, planVars, entryVars, batchVars>>

\* SessionManager.add_message: rpush on the messages key, expire on the messages key
AddMessage ==
    /\ store_created
    /\ store_appended < MaxMessages
    /\ \E role \in {"user", "assistant"} :
          redis_messages' = Append(redis_messages,
                                   [role |-> role, content |-> store_appended + 1])
    /\ redis_messages_ttl' = SessionTTL
    /\ store_appended' = store_appended + 1
    /\ store_last' = [op |-> "add_message", result |-> TRUE]
    /\ Touched
    /\ UNCHANGED <<redis_session, redis_session_ttl, caller_pc, caller_session,
                   caller_patch, store_created, store_applied>>
    /\ UNCHANGED <<execVars, planVars, entryVars, batchVars>>

\* SessionManager.get_messages: lrange on the messages key, no expire
GetMessages ==
    /\ store_created
    /\ store_last' = [op |-> "get_messages", result |-> LastN(redis_messages, MessageLimit)]
    /\ Touched
    /\ UNCHANGED <<redis_session, redis_session_ttl, redis_messages, redis_messages_ttl,
                   caller_pc, caller_session, caller_patch, store_created,
                   store_appended, store_applied>>
    /\ UNCHANGED <<execVars, planVars, entryVars, batchVars>>

\* one unit of time passes; Redis drops a key whose time to live ran out
Tick ==
    /\ store_created
    /\ redis_session_ttl > 0 \/ redis_messages_ttl > 0 \/ store_since_op < SessionTTL
    /\ redis_session_ttl' = IF redis_session_ttl > 0 THEN redis_session_ttl - 1 ELSE 0
    /\ redis_session' = IF redis_session_ttl <= 1 THEN None ELSE redis_session
    /\ store_applied' = IF redis_session_ttl <= 1 THEN {} ELSE store_applied
    /\ redis_messages_ttl' = IF redis_messages_ttl > 0 THEN redis_messages_ttl - 1 ELSE 0
    /\ redis_messages' = IF redis_messages_ttl <= 1 THEN << >> ELSE redis_messages
    /\ store_since_op' = Min(store_since_op + 1, SessionTTL)
    /\ store_window_kept' = (store_window_kept /\ store_since_op + 1 < SessionTTL)
    /\ UNCHANGED <<caller_pc, caller_session, caller_patch, store_last, store_created,
                   store_appended>>
    /\ UNCHANGED <<execVars, planVars, entryVars, batchVars>>

InitSession ==
    /\ StoreIdle
    /\ BatchIdle
    /\ ExecutorIdle
    /\ PlannerIdle
    /\ EntryIdle

NextSession ==
    \/ CreateSession
    \/ GetSession
    \/ \E c \in Callers : UpdateContextRead(c)
    \/ \E c \in Callers : UpdateContextWrite(c)
    \/ AddMessage
    \/ GetMessages
    \/ Tick

SpecSession == InitSession /\ [][NextSession]_vars

\* C15: after the TTL elapsed with no operation on the session, loading it
\* returns a fresh empty context, not the old one and not an absent session
\* on which a later update is refused (stated as claimed; get_session returns
\* None for an expired key and update_context then returns False)
C15_ExpiredLoadIsFresh ==
    /\ (store_last.op = "get_session" /\ ~store_last.found) =>
          store_last.result = [context |-> EmptyDict]
    /\ store_last.op = "update_context" => store_last.result

\* C16: a session on which at least one operation (load, append_message,
\* update_context, history retrieval) happens in every TTL window never loses
\* its context or its messages (stated as claimed; get_session refreshes only
\* the session key, add_message only the messages key, get_messages neither)
C16_OperationsKeepSessionAlive ==
    (store_created /\ store_window_kept) =>
        /\ redis_session # None
        /\ Len(redis_messages) = store_appended

\* C17: when update_context calls on the same session with patches on
\* different keys have all returned, the stored context holds every patch
\* (stated as claimed; update_context reads, merges and writes back without
\* a lock, so the later writer drops the earlier writer's patch)
C17_NoLostUpdate ==
    (redis_session # None /\ \A c \in Callers : caller_pc[c] = "idle") =>
        \A patch \in store_applied :
            \A k \in DOMAIN patch :
                /\ k \in DOMAIN redis_session.context
                /\ redis_session.context[k] = patch[k]


(***************************************************************************)
(* ExecutorAgent.do_plan executed twice on the same QueryPlan              *)
(***************************************************************************)
\* the tools do_plan dispatches after its loops
SummaryTools == {"summarize_price_data", "summarize_news_chunks", "summarize_combined"}

\* the dispatches of Steps 1 and 2
LoopLog(log) == SelectSeq(log, LAMBDA e : e.tool_name \notin SummaryTools)

\* the dispatches of Steps 3 to 5
SummaryLog(log) == SelectSeq(log, LAMBDA e : e.tool_name \in SummaryTools)

IsPrefix(a, b) == Len(a) <= Len(b) /\ a = SubSeq(b, 1, Len(a))

\* the registry is deterministic: the second execution sees the dispatches of the first
SameLoopDispatches ==
    IF run_no = 1 THEN TRUE ELSE IsPrefix(dispatch_log, first_run.loop_log)

\* ... and so has collected what the first execution collected
SameCollected ==
    IF run_no = 1 THEN TRUE
    ELSE /\ collected_coin_prices = first_run.plan_result.collected_coin_prices
         /\ collected_coin_hourly_prices = first_run.plan_result.collected_coin_hourly_prices
         /\ collected_news_chunks = first_run.plan_result.collected_news_chunks
         /\ coin_names_set = Range(first_run.plan_result.coin_names)

\* ... and the extractor hands back what it handed back the first time
SameExtracted ==
    IF run_no = 1 THEN TRUE ELSE generated_queries = first_run.generated_queries

\* a summarizer called with the arguments of the first execution gives the same outcome
SameSummaryOutcome ==
    IF run_no = 1 \/ dispatch_log' = dispatch_log THEN TRUE
    ELSE LET e == dispatch_log'[Len(dispatch_log')] IN
         \A k \in 1..Len(first_run.summary_log) :
            LET f == first_run.summary_log[k] IN
            (f.tool_name = e.tool_name /\ f.arguments = e.arguments)
               => f.outcome = e.outcome

RunExecuteToolCall == ExecuteToolCall /\ SameLoopDispatches'

RunExtractQueries ==
    /\ SameCollected
    /\ ExtractQueries
    /\ SameLoopDispatches'
    /\ SameExtracted'

RunSummarizePrice == SummarizePrice /\ SameSummaryOutcome

RunSummarizeNews == SummarizeNews /\ SameSummaryOutcome

RunSummarizeCombined == SummarizeCombined /\ SameSummaryOutcome

\* do_plan is called again with the QueryPlan of the first call
ExecuteAgain ==
    /\ pc = "done"
    /\ run_no = 1
    /\ run_no' = 2
    /\ first_run' = [plan_result |-> plan_result,
                     loop_log |-> LoopLog(dispatch_log),
                     summary_log |-> SummaryLog(dispatch_log),
                     generated_queries |-> generated_queries]
    /\ pc' = IF Len(plan.query_plan) = 0 THEN "step2" ELSE "step1"
    /\ idx' = 1
    /\ collected_coin_prices' = EmptyDict
    /\ collected_coin_hourly_prices' = EmptyDict
    /\ collected_news_chunks' = << >>
    /\ chunk_perspective' = << >>
    /\ executed_queries' = << >>
    /\ generated_queries' = << >>
    /\ coin_names_set' = {}
    /\ errors' = << >>
    /\ successful_actions' = 0
    /\ failed_actions' = 0
    /\ price_summary' = None
    /\ news_summary' = None
    /\ combined_summary' = None
    /\ dispatch_log' = << >>
    /\ first_coin' = ""
    /\ plan_result' = None
    /\ UNCHANGED <<plan, total_actions>>
    /\ UNCHANGED <<planVars, entryVars, storeVars, batchVars>>

NextRerun ==
    \/ RunExecuteToolCall
    \/ RunExtractQueries
    \/ RunSummarizePrice
    \/ RunSummarizeNews
    \/ RunSummarizeCombined
    \/ ReturnPlanResult
    \/ ExecuteAgain

SpecRerun == InitExecutor /\ [][NextRerun]_vars

\* the coin and the price rows handed to summarize_price_data
PriceSummaryCalls(log) ==
    LET calls == SelectSeq(log, LAMBDA e : e.tool_name = "summarize_price_data")
    IN [k \in 1..Len(calls) |-> [coin_name |-> calls[k].arguments.coin_name,
                                 price_data |-> calls[k].arguments.price_data]]

\* C18: executing the same QueryPlan twice against tools with deterministic
\* outputs returns the same PlanResult apart from the summary strings, the
\* same coin_names, counters, errors, collected data and generated queries,
\* and hands the same coin and price rows to summarize_price_data
C18_SecondRunIdentical ==
    (run_no = 2 /\ pc = "done") =>
       LET a == first_run.plan_result
           b == plan_result
       IN /\ a.intent_type = b.intent_type
          /\ a.coin_names = b.coin_names
          /\ a.total_actions = b.total_actions
          /\ a.successful_actions = b.successful_actions
          /\ a.failed_actions = b.failed_actions
          /\ a.errors = b.errors
          /\ a.collected_coin_prices = b.collected_coin_prices
          /\ a.collected_coin_hourly_prices = b.collected_coin_hourly_prices
          /\ a.collected_news_chunks = b.collected_news_chunks
          /\ a.generated_queries = b.generated_queries
          /\ PriceSummaryCalls(first_run.summary_log) = PriceSummaryCalls(dispatch_log)


(***************************************************************************)
(* Properties of the plan the rule based planner emits                     *)
(***************************************************************************)
\* the tool calls of a plan that name the given tool, in plan order
CallsOf(query_plan, tool_name) ==
    SelectSeq(query_plan, LAMBDA tc : tc.tool_name = tool_name)

\* the planner was given a query whose intent is one of the three known ones
PlannedKnownIntent ==
    /\ planner_out # None
    /\ "intent_type" \in DOMAIN normalized_query
    /\ normalized_query.intent_type \in {"market_trend", "news_summary", "price_reason"}

\* C19: for every NormalizedQuery with a known intent the planner emits exactly
\* one get_coin_price call per coin of target.coin, its range_type being day,
\* week, month, year, year for relative 24h, 7d, 1m, ytd, all, and its
\* direction being before unless the intent is price_reason
C19_OnePriceCallPerCoin ==
    (PlannedKnownIntent /\ normalized_query.time_range.relative \in {"24h", "7d", "1m", "ytd", "all"}) =>
       /\ planner_out.kind = "plan"
       /\ LET price == CallsOf(planner_out.plan.query_plan, "get_coin_price")
              coins == normalized_query.target.coin
              relative == normalized_query.time_range.relative
              range_type == CASE relative = "24h" -> "day"
                              [] relative = "7d" -> "week"
                              [] relative = "1m" -> "month"
                              [] OTHER -> "year"
          IN /\ Len(price) = Len(coins)
             /\ \A i \in 1..Len(coins) :
                   Cardinality({k \in 1..Len(price) :
                                   price[k].arguments.coin_name = coins[i]}) = 1
             /\ \A k \in 1..Len(price) :
                   /\ price[k].arguments.range_type = range_type
                   /\ normalized_query.intent_type # "price_reason"
                         => price[k].arguments.direction = "before"

\* the similarity_threshold the planner puts in _search_params when the query
\* at hand asks for the given depth
ThresholdAtDepth(depth) ==
    LET nq == [normalized_query EXCEPT !.goal.depth = depth]
        calls == CallsOf(MakePlan(nq, TodayMidnight).plan.query_plan, "make_semantic_query")
    IN calls[1].arguments._search_params.similarity_threshold

\* C20: for every NormalizedQuery with a known intent the plan holds exactly one
\* make_semantic_query call per perspective of the intent's table, at least 4
\* for price_reason and at least 2 for market_trend and news_summary; each call
\* carries _search_params whose top_k is 10, 15, 25 for depth short, medium,
\* deep and whose similarity_threshold does not increase from short to medium
\* to deep
C20_OneSemanticQueryPerPerspective ==
    PlannedKnownIntent =>
       /\ planner_out.kind = "plan"
       /\ LET intent_type == normalized_query.intent_type
              depth == normalized_query.goal.depth
              perspectives == QUERY_PERSPECTIVES[intent_type]
              semantic == CallsOf(planner_out.plan.query_plan, "make_semantic_query")
          IN /\ Len(semantic) = Len(perspectives)
             /\ Len(semantic) >= (IF intent_type = "price_reason" THEN 4 ELSE 2)
             /\ \A i \in 1..Len(perspectives) :
                   Cardinality({k \in 1..Len(semantic) :
                                   semantic[k].arguments.custom_context
                                      = perspectives[i].custom_context}) = 1
             /\ \A k \in 1..Len(semantic) :
                   /\ "_search_params" \in DOMAIN semantic[k].arguments
                   /\ semantic[k].arguments._search_params.top_k
                         = (CASE depth = "short" -> 10
                              [] depth = "medium" -> 15
                              [] depth = "deep" -> 25)
                   /\ semantic[k].arguments._search_params.similarity_threshold
                         = ThresholdAtDepth(depth)
             /\ ThresholdAtDepth("short") >= ThresholdAtDepth("medium")
             /\ ThresholdAtDepth("medium") >= ThresholdAtDepth("deep")

\* a deep price_reason query about two coins that has been planned
C20_Witness ==
    /\ PlannedKnownIntent
    /\ normalized_query.intent_type = "price_reason"
    /\ normalized_query.goal.depth = "deep"
    /\ Len(normalized_query.target.coin) = 2
    /\ planner_out.kind = "plan"
    /\ Len(CallsOf(planner_out.plan.query_plan, "make_semantic_query")) = 5


(***************************************************************************)
(* Properties of the auto-chained semantic_search                          *)
(***************************************************************************)
\* no plan of the rule based planner declares semantic_search
PlannerNeverEmitsSearch ==
    \A nq \in NormalizedQueries :
       LET out == MakePlan(nq, TodayMidnight) IN
       out.kind = "plan" => CallsOf(out.plan.query_plan, "semantic_search") = << >>

\* the positions of the log at which a declared make_semantic_query was dispatched
QueryDispatches ==
    {p \in 1..Len(dispatch_log) :
        /\ dispatch_log[p].tool_name = "make_semantic_query"
        /\ ~dispatch_log[p].chained
        /\ dispatch_log[p].idx > 0}

\* the chained dispatch at position p hands on what the declared call at p - 1 said
ChainedFrom(p) ==
    LET made == dispatch_log[p - 1]
        chained == dispatch_log[p]
        arguments == plan.query_plan[made.idx].arguments
        nth == Cardinality({q \in QueryDispatches :
                               q < p /\ dispatch_log[q].outcome = "return"})
    IN /\ chained.tool_name = "semantic_search"
       /\ chained.idx = made.idx
       /\ chained.arguments.query = executed_queries[nth]
       /\ "_search_params" \in DOMAIN arguments =>
             /\ chained.arguments.top_k = arguments._search_params.top_k
             /\ chained.arguments.similarity_threshold
                   = arguments._search_params.similarity_threshold
             /\ chained.arguments.pivot_date = arguments._search_params.pivot_date
             /\ chained.arguments.date_range = arguments._search_params.date_range

\* C21: every make_semantic_query ToolCall that succeeds is followed, before the
\* next declared ToolCall, by exactly one semantic_search whose query is the
\* string make_semantic_query returned and whose top_k, similarity_threshold,
\* pivot_date and date_range are those of the call's _search_params; a failed
\* make_semantic_query is followed by none, and the Planner never declares
\* semantic_search in a plan
C21_AutoChainedSearch ==
    /\ \A p \in QueryDispatches :
          IF dispatch_log[p].outcome = "return"
          THEN /\ p < Len(dispatch_log)
               /\ dispatch_log[p + 1].chained
               /\ ChainedFrom(p + 1)
               /\ Cardinality({q \in 1..Len(dispatch_log) :
                                  dispatch_log[q].chained
                                  /\ dispatch_log[q].idx = dispatch_log[p].idx}) = 1
          ELSE \A q \in 1..Len(dispatch_log) :
                  dispatch_log[q].chained => dispatch_log[q].idx # dispatch_log[p].idx
    /\ \A q \in 1..Len(dispatch_log) :
          dispatch_log[q].chained => (q > 1 /\ (q - 1) \in QueryDispatches)
    /\ PlannerNeverEmitsSearch

\* a plan whose first make_semantic_query failed and whose second one, carrying
\* _search_params, succeeded and had its search dispatched
C21_Witness ==
    /\ pc = "done"
    /\ \E p, q \in QueryDispatches :
          /\ p < q
          /\ dispatch_log[p].outcome = "raise"
          /\ dispatch_log[q].outcome = "return"
          /\ "_search_params" \in DOMAIN plan.query_plan[dispatch_log[q].idx].arguments
          /\ dispatch_log[q + 1].chained
          /\ dispatch_log[q + 1].outcome = "return"


(***************************************************************************)
(* Properties of the arguments handed to the tool bodies                   *)
(***************************************************************************)
\* the dispatches that reached a tool body
Invocations ==
    {p \in 1..Len(dispatch_log) : dispatch_log[p].outcome # "unregistered"}

\* what the tool body of every invocation was given: no meta key, and for a
\* declared ToolCall every other key of the call with its value
ForwardedArguments ==
    \A p \in Invocations :
       LET e == dispatch_log[p] IN
       /\ \A k \in DOMAIN e.arguments : ~StartsWithUnderscore(k)
       /\ (e.idx > 0 /\ ~e.chained) =>
             LET arguments == plan.query_plan[e.idx].arguments IN
             /\ DOMAIN arguments \ DOMAIN e.arguments = DOMAIN arguments \cap {"_search_params"}
             /\ DOMAIN e.arguments \subseteq DOMAIN arguments
             /\ \A k \in DOMAIN e.arguments : e.arguments[k] = arguments[k]
       /\ e.chained =>
             DOMAIN e.arguments
                = {"query", "top_k", "similarity_threshold", "pivot_date", "date_range"}

\* C22: no tool invocation of the Executor (declared, auto-chained, summarizer)
\* forwards an argument whose key begins with "_", every other argument is
\* forwarded unchanged, and the ToolCall keeps its meta keys afterwards
C22_MetaArgumentsNotForwarded ==
    /\ []ForwardedArguments
    /\ [][plan'.query_plan = plan.query_plan]_vars

\* a declared make_semantic_query carrying _search_params reached its tool body,
\* and so did the search chained to it and a summarizer
C22_Witness ==
    /\ pc = "done"
    /\ \E p \in Invocations :
          /\ dispatch_log[p].tool_name = "make_semantic_query"
          /\ dispatch_log[p].outcome = "return"
          /\ "_search_params" \in DOMAIN plan.query_plan[dispatch_log[p].idx].arguments
          /\ dispatch_log[p + 1].chained
    /\ \E p \in Invocations : dispatch_log[p].tool_name = "summarize_news_chunks"


(***************************************************************************)
(* Properties of the summarization steps                                   *)
(***************************************************************************)
\* the summarizer named tool_name was dispatched and did not produce its summary
SummarizerFailed(tool_name) ==
    \E p \in 1..Len(dispatch_log) :
       /\ dispatch_log[p].tool_name = tool_name
       /\ dispatch_log[p].outcome # "text"

\* C23: when summarize_price_data or summarize_news_chunks fails, the summary
\* of the returned PlanResult is null and errors[] holds an entry for it; the
\* other summarizer is still dispatched when there is data for it
C23_FailedSummaryIsNull ==
    pc = "done" =>
       /\ SummarizerFailed("summarize_price_data") =>
             /\ plan_result.price_summary = None
             /\ \E k \in 1..Len(plan_result.errors) :
                   plan_result.errors[k] = [step |-> "price_summary"]
             /\ plan_result.collected_news_chunks # << >> =>
                   \E p \in 1..Len(dispatch_log) :
                      dispatch_log[p].tool_name = "summarize_news_chunks"
       /\ SummarizerFailed("summarize_news_chunks") =>
             /\ plan_result.news_summary = None
             /\ \E k \in 1..Len(plan_result.errors) :
                   plan_result.errors[k] = [step |-> "news_summary"]

\* the rows collected for a coin in a bucket
RowsOf(bucket, coin_name) ==
    IF coin_name \in DOMAIN bucket THEN Range(bucket[coin_name]) ELSE {}

\* C24: whenever the loop collected a price point, summarize_price_data is
\* dispatched, and every coin with collected points has all of its daily and
\* hourly rows handed to a summarize_price_data call
C24_EveryCoinSummarized ==
    pc = "done" =>
       \A coin_name \in DOMAIN collected_coin_prices \cup DOMAIN collected_coin_hourly_prices :
          LET rows == RowsOf(collected_coin_prices, coin_name)
                         \cup RowsOf(collected_coin_hourly_prices, coin_name)
          IN rows # {} =>
                \E p \in 1..Len(dispatch_log) :
                   /\ dispatch_log[p].tool_name = "summarize_price_data"
                   /\ dispatch_log[p].arguments.coin_name = coin_name
                   /\ rows \subseteq Range(dispatch_log[p].arguments.price_data)


(***************************************************************************)
(* Further properties of a turn                                            *)
(***************************************************************************)
\* C25: every turn of process ends with a result holding response,
\* context_update and path, whatever the utterance, the SessionContext left by
\* earlier turns and the external call that fails; no exception escapes
C25_EveryTurnReturnsResult ==
    turn_handler = "process" =>
       /\ turn_result.kind = "result"
       /\ {"response", "context_update", "path"} \subseteq DOMAIN turn_result

\* the router named a reuse path whose artefact the session did not hold
ReuseWithoutArtefact ==
    LET path == RouterPath[turn_decision] IN
    /\ turn_decision \notin DirectTexts
    /\ \/ path = STR_REUSE_RESULT /\ "last_plan_result" \notin DOMAIN turn_before
       \/ path = STR_REUSE_ANALYSIS /\ "last_normalized_query" \notin DOMAIN turn_before

CalculateDateRange(pivot_date, date_range) ==
    LET range_offsets == [day |-> 86400, week |-> 7 * 86400, month |-> 30 * 86400]
    IN IF date_range = NoneStr THEN <<pivot_date, pivot_date + 86399>>
       ELSE LET offset == DictGet(range_offsets, date_range, 86400)
            IN <<pivot_date - offset, pivot_date + offset>>

\* the window the search chained to a planned make_semantic_query is run with
PlannedWindow(tool_call) ==
    CalculateDateRange(tool_call.arguments._search_params.pivot_date,
                       tool_call.arguments._search_params.date_range)

\* C27: every date_range the Planner puts into _search_params is one of day,
\* week, month, and the window around the pivot is +-1 day for 24h, +-7 days
\* for 7d and at least +-30 days for 1m, ytd and all
C27_WindowGrowsWithRelative ==
    (PlannedKnownIntent /\ normalized_query.time_range.relative \in {"24h", "7d", "1m", "ytd", "all"}) =>
       /\ planner_out.kind = "plan"
       /\ LET semantic == CallsOf(planner_out.plan.query_plan, "make_semantic_query")
              relative == normalized_query.time_range.relative
          IN \A k \in 1..Len(semantic) :
                LET pivot == semantic[k].arguments._search_params.pivot_date
                    window == PlannedWindow(semantic[k])
                    before == pivot - window[1]
                    after == window[2] - pivot
                IN /\ semantic[k].arguments._search_params.date_range
                         \in {"day", "week", "month"}
                   /\ before = after
                   /\ CASE relative = "24h" -> after = 86400
                        [] relative = "7d" -> after = 7 * 86400
                        [] OTHER -> after >= 30 * 86400


(***************************************************************************)
(* A failing auto-chained search                                           *)
(***************************************************************************)
\* the step just taken dispatched a make_semantic_query whose chained search raised
ChainedSearchFailed ==
    /\ Len(dispatch_log') = Len(dispatch_log) + 2
    /\ dispatch_log'[Len(dispatch_log')].chained
    /\ dispatch_log'[Len(dispatch_log')].outcome = "raise"

\* once the loop has ended every declared ToolCall has been dispatched
EveryCallDispatched ==
    pc # "step1" =>
       \A i \in 1..Len(plan.query_plan) :
          \E p \in 1..Len(dispatch_log) :
             dispatch_log[p].idx = i /\ ~dispatch_log[p].chained

\* C28: a failing auto-chained semantic_search adds no passage, leaves
\* failed_actions and errors[] as they were while its make_semantic_query is
\* counted as successful, and the later ToolCalls of the plan are still executed
C28_ChainedFailureIsolated ==
    /\ [][ChainedSearchFailed =>
            /\ collected_news_chunks' = collected_news_chunks
            /\ successful_actions' = successful_actions + 1
            /\ failed_actions' = failed_actions
            /\ errors' = errors
            /\ idx' = idx + 1]_vars
    /\ []EveryCallDispatched

\* a plan whose first call had its chained search raise and whose second call
\* was dispatched afterwards
C28_Witness ==
    /\ pc = "done"
    /\ Len(plan.query_plan) = 2
    /\ \E p \in 1..Len(dispatch_log) :
          /\ dispatch_log[p].chained
          /\ dispatch_log[p].idx = 1
          /\ dispatch_log[p].outcome = "raise"
    /\ \E p \in 1..Len(dispatch_log) : dispatch_log[p].idx = 2 /\ dispatch_log[p].outcome = "return"


AcquireCheck(r) ==
    /\ request_pc[r] = "idle"
    /\ request_pc' = [request_pc EXCEPT ![r] = IF lock_file THEN "rejected" ELSE "checked"]
    /\ UNCHANGED <<lock_file, request_outcome>>
    /\ UNCHANGED <<execVars, planVars, entryVars, storeVars>>

\* acquire_lock, line 9: open(LOCK_FILE, "w").close()
AcquireCreate(r) ==
    /\ request_pc[r] = "checked"
    /\ lock_file' = TRUE
    /\ request_pc' = [request_pc EXCEPT ![r] = "running"]
    /\ UNCHANGED request_outcome
    /\ UNCHANGED <<execVars, planVars, entryVars, storeVars>>

\* the try block of get_docs_from_batch: the run returns or raises
RunBatch(r) ==
    /\ request_pc[r] = "running"
    /\ \E outcome \in {"success", "failure"} :
          request_outcome' = [request_outcome EXCEPT ![r] = outcome]
    /\ request_pc' = [request_pc EXCEPT ![r] = "finally"]
    /\ UNCHANGED lock_file
    /\ UNCHANGED <<execVars, planVars, entryVars, storeVars>>

\* release_lock, line 12: if os.path.exists(LOCK_FILE)
ReleaseCheck(r) ==
    /\ request_pc[r] = "finally"
    /\ request_pc' = [request_pc EXCEPT ![r] = IF lock_file THEN "removing" ELSE "done"]
    /\ UNCHANGED <<lock_file, request_outcome>>
    /\ UNCHANGED <<execVars, planVars, entryVars, storeVars>>

\* release_lock, line 13: os.remove(LOCK_FILE), FileNotFoundError if it is gone
ReleaseRemove(r) ==
    /\ request_pc[r] = "removing"
    /\ lock_file' = FALSE
    /\ request_outcome' = [request_outcome EXCEPT ![r] = IF lock_file THEN @ ELSE "failure"]
    /\ request_pc' = [request_pc EXCEPT ![r] = "done"]
    /\ UNCHANGED <<execVars, planVars, entryVars, storeVars>>

InitBatch ==
    /\ BatchIdle
    /\ ExecutorIdle
    /\ PlannerIdle
    /\ EntryIdle
    /\ StoreIdle

NextBatch ==
    \E r \in Requests :
       \/ AcquireCheck(r)
       \/ AcquireCreate(r)
       \/ RunBatch(r)
       \/ ReleaseCheck(r)
       \/ ReleaseRemove(r)

SpecBatch == InitBatch /\ [][NextBatch]_vars

\* the requests whose run is between acquire_lock and release_lock
Holders == {r \in Requests : request_pc[r] \in {"running", "finally", "removing"}}

\* C30: at any time at most one batch run is between acquire_lock and
\* release_lock; a request arriving while a run holds the lock is rejected
\* and leaves the lock file alone; and the lock is released once the holding
\* run has ended, whether it succeeded or failed
C30_BatchLockExcludes ==
    /\ [](Cardinality(Holders) <= 1)
    /\ []((\A r \in Requests : request_pc[r] \in {"idle", "done", "rejected"}) => ~lock_file)
    /\ [][\A r \in Requests :
             (request_pc[r] = "idle" /\ Holders # {} /\ request_pc'[r] # "idle")
                => (request_pc'[r] = "rejected" /\ lock_file' = lock_file)]_vars

====
